---- MODULE Spec2Model ----
(***************************************************************************)
(* A model of gpmf/gps.py: extract_gps_blocks (the generator that groups   *)
(* the children of STRM containers), parse_gps_block (the decoder of one   *)
(* block into a GPSData table) and make_pgx_segment (the assembler of the  *)
(* track segment and its start time).                                      *)
(*                                                                         *)
(* A KLVItem is a record [key, value].  A numpy matrix is a sequence of    *)
(* rows, a row a sequence of integers.  A scaled (float) cell is kept as   *)
(* the exact fraction [num, den]: num is the cell before scaling and den   *)
(* the SCAL entry that divides it.  A datetime is kept as the timedelta    *)
(* since 2000-01-01 00:00:00, normalised as Python normalises it:          *)
(* [days, seconds, microseconds].  A Python exception is a result whose    *)
(* status names the exception class.                                       *)
(***************************************************************************)
EXTENDS Integers, Sequences, FiniteSets, TLC

VARIABLES
    stream,      \* extract_gps_blocks: the top-level KLV items of the stream
    pos,         \* extract_gps_blocks: items of the stream consumed so far
    yielded,     \* extract_gps_blocks: the groups yielded so far, in order
    xpc,         \* extract_gps_blocks: "running" | "exhausted"
    gps_block,   \* parse_gps_block called on its own: the argument
    results,     \* parse_gps_block called on its own: one result per call
    blocks,      \* pipeline: the blocks handed to parse_gps_block, in order
    tables,      \* pipeline: the GPSData tables decoded so far (gps_blocks)
    first_only,  \* make_pgx_segment: the flag
    speeds_as_extensions, \* make_pgx_segment: the flag
    pc,          \* pipeline: "decode" | "for" | "point" | "done" | "error"
    gi,          \* make_pgx_segment: tables of the outer loop already taken
    si,          \* make_pgx_segment: the inner loop's i
    points,      \* make_pgx_segment: track_segment.points
    starttime,   \* make_pgx_segment: <<>> while unbound, else <<datetime>>
    err          \* pipeline: [status, detail, line] of the exception raised

vars == <<stream, pos, yielded, xpc, gps_block, results, blocks, tables,
          first_only, speeds_as_extensions, pc, gi, si, points, starttime, err>>

xvars == <<stream, pos, yielded, xpc>>
dvars == <<gps_block, results>>
pvars == <<blocks, tables, first_only, speeds_as_extensions, pc, gi, si,
           points, starttime, err>>

----------------------------------------------------------------------------
(* Bounds of the model. *)

\* rows of the largest GPS9 payload drawn
MaxRows == 2
\* blocks handed to the pipeline
MaxBlocks == 2
\* calls of parse_gps_block on one block
MaxCalls == 2
\* top-level items of a stream
MaxStream == 2
\* children of a top-level item
MaxChildren == 2

----------------------------------------------------------------------------
(* Constants of the program. *)

\* the divisor of the packed column: tempy%65536, tempy//65536
TwoPow16 == 65536
\* the column gpsClone.T[7] that receives the whole part (0-based)
WholePartColumn == 7
\* the names unpacked from gps_data.T
UnpackedNames == 9
\* the gate on precision[0]
PrecisionGate == 10
\* 4294967296, which `tempy += 4294967296` adds
TwoPow32 == 65536 * 65536

SecondsPerDay == 86400
MicrosPerSecond == 1000000

----------------------------------------------------------------------------
(* Python dict and numpy helpers. *)

\* block_dict = {s.key: s for s in gps_block}: the keys present
Keys(block) == {block[i].key : i \in 1..Len(block)}

\* block_dict[k]: a later item replaces an earlier one of the same key
Lookup(block, k) ==
    LET idx == {i \in 1..Len(block) : block[i].key = k}
        last == CHOOSE i \in idx : \A j \in idx : j <= i
    IN  block[last]

\* value.T[-1]: the last column
Tempy(value) == [i \in 1..Len(value) |-> value[i][Len(value[i])]]

\* tempy.any(): True (1) when some element is not zero, else False (0)
TempyAny(tempy) == IF \E i \in 1..Len(tempy) : tempy[i] # 0 THEN 1 ELSE 0

\* `tempy.any() < 0`: the boolean of any() compared with zero
TempyIsNegative(tempy) == TempyAny(tempy) < 0

\* tempy after lines 76-78: `tempy += 4294967296` when the guard holds
TempyAfterGuard(tempy) ==
    IF TempyIsNegative(tempy)
    THEN [i \in 1..Len(tempy) |-> tempy[i] + TwoPow32]
    ELSE tempy

\* the remainder taken by the mask's value, 65535, instead of 65536
Remainder_by_mask(tempy) ==
    [i \in 1..Len(tempy) |-> tempy[i] % (TwoPow16 - 1)]

\* tempy%65536, a new array
Remainder(tempy) == [i \in 1..Len(tempy) |-> tempy[i] % TwoPow16]

\* tempy//65536, numpy's floor division
WholePart(tempy) == [i \in 1..Len(tempy) |-> tempy[i] \div TwoPow16]

\* np.concatenate((value, col[..., None]), 1): a new matrix, one more column
Concatenate(value, col) ==
    [i \in 1..Len(value) |-> Append(value[i], col[i])]

\* m.T[c] = col, c 0-based
SetColumn(m, c, col) ==
    [i \in 1..Len(m) |-> [m[i] EXCEPT ![c + 1] = col[i]]]

\* gpsClone after line 80
GpsClone(value) ==
    LET tempy == Tempy(value)
        clone == Concatenate(value, Remainder(tempy))
    IN  SetColumn(clone, WholePartColumn, WholePart(TempyAfterGuard(tempy)))

\* the GPS9 matrix when line 80 stores through to the argument
ValueAfterCall_aliased(value) ==
    SetColumn(value, WholePartColumn, WholePart(TempyAfterGuard(Tempy(value))))

\* the GPS9 matrix of the argument after the call: tempy is a view of it, so
\* the in-place add of line 78 is its only write; gpsClone is a copy
ValueAfterCall(value) ==
    [i \in 1..Len(value) |->
        [value[i] EXCEPT ![Len(value[i])] = TempyAfterGuard(Tempy(value))[i]]]

\* numpy broadcasting of an (n, cols) matrix with a vector of length len
Broadcasts(cols, len) == len = cols \/ len = 1 \/ cols = 1

ScalAt(scal, j) == IF Len(scal) = 1 THEN scal[1] ELSE scal[j]

\* gpsClone * 1.0 / SCAL: every cell over the SCAL entry of its column
Scale(m, scal) ==
    [i \in 1..Len(m) |->
        [j \in 1..Len(m[i]) |-> [num |-> m[i][j], den |-> ScalAt(scal, j)]]]

\* gps_data.T[c], c 0-based
Column(m, c) == [i \in 1..Len(m) |-> m[i][c + 1]]

----------------------------------------------------------------------------
(* parse_gps_block *)

Raised(status, detail, line) ==
    [status |-> status, detail |-> detail, line |-> line, table |-> <<>>]

Returned(table) ==
    [status |-> "ok", detail |-> "", line |-> 0, table |-> <<table>>]

\* the GPSData built by lines 82-96 from the scaled matrix
GPSData(block, gps_data) ==
    [description        |-> Lookup(block, "STNM").value,
     timestamp          |-> <<Column(gps_data, 5), Column(gps_data, 6)>>,
     micros_after_start |-> Lookup(block, "STMP"),
     precision          |-> Column(gps_data, 7),
     fix                |-> Column(gps_data, 8),
     latitude           |-> Column(gps_data, 0),
     longitude          |-> Column(gps_data, 1),
     altitude           |-> Column(gps_data, 2),
     speed_2d           |-> Column(gps_data, 3),
     speed_3d           |-> Column(gps_data, 4),
     units              |-> Lookup(block, "UNIT").value,
     npoints            |-> Len(gps_data)]

\* the decoder with block_dict.get(tag, default) in place of block_dict[tag]
\* for the three tags read after the payload
ParseGpsBlock_defaulting(block) ==
    IF "GPS9" \notin Keys(block) \/ "SCAL" \notin Keys(block)
    THEN Raised("KeyError", "GPS9", 73)
    ELSE LET gpsClone == GpsClone(Lookup(block, "GPS9").value)
             scal == Lookup(block, "SCAL").value
             stnm == IF "STNM" \in Keys(block) THEN Lookup(block, "STNM").value ELSE ""
             unit == IF "UNIT" \in Keys(block) THEN Lookup(block, "UNIT").value ELSE ""
             stmp == IF "STMP" \in Keys(block) THEN Lookup(block, "STMP")
                     ELSE [key |-> "STMP", value |-> 0]
             full == block \o <<[key |-> "STNM", value |-> stnm], stmp,
                               [key |-> "UNIT", value |-> unit]>>
         IN  IF ~Broadcasts(Len(gpsClone[1]), Len(scal))
             THEN Raised("ValueError", "broadcast", 81)
             ELSE IF Len(gpsClone[1]) # UnpackedNames
             THEN Raised("ValueError", "unpack", 82)
             ELSE Returned(GPSData(full, Scale(gpsClone, scal)))

\* the result of parse_gps_block(block): the statements of lines 69-96 in
\* order, each one raising what Python raises there
ParseGpsBlock(block) ==
    IF "GPS9" \notin Keys(block) THEN Raised("KeyError", "GPS9", 73)
    ELSE LET gpsClone == GpsClone(Lookup(block, "GPS9").value)
         IN  IF "SCAL" \notin Keys(block) THEN Raised("KeyError", "SCAL", 81)
             ELSE LET scal == Lookup(block, "SCAL").value
                  IN  IF ~Broadcasts(Len(gpsClone[1]), Len(scal))
                      THEN Raised("ValueError", "broadcast", 81)
                      ELSE IF Len(gpsClone[1]) # UnpackedNames
                      THEN Raised("ValueError", "unpack", 82)
                      ELSE IF "STNM" \notin Keys(block)
                      THEN Raised("KeyError", "STNM", 84)
                      ELSE IF "STMP" \notin Keys(block)
                      THEN Raised("KeyError", "STMP", 86)
                      ELSE IF "UNIT" \notin Keys(block)
                      THEN Raised("KeyError", "UNIT", 94)
                      ELSE Returned(GPSData(block, Scale(gpsClone, scal)))

\* the argument after the call: the same items, the GPS9 matrix as the call
\* leaves it (nothing is stored when line 73 raises)
BlockAfterCall(block) ==
    IF "GPS9" \notin Keys(block) THEN block
    ELSE [i \in 1..Len(block) |->
            IF block[i] = Lookup(block, "GPS9")
            THEN [block[i] EXCEPT !.value = ValueAfterCall(@)]
            ELSE block[i]]

----------------------------------------------------------------------------
(* The inputs drawn.  A GPS9 row as the tokenizer hands it over has eight  *)
(* columns: latitude, longitude, altitude, 2D speed, 3D speed, days,       *)
(* seconds and one packed column, which line 82 unpacks as DOP (its whole  *)
(* part) and fix (its remainder).  Rows of nine columns are drawn too.     *)
(* A payload has at least one row.                                         *)

Packed(whole, remainder) == whole * TwoPow16 + remainder

RowA == <<10, 20, 5, 1, 2, 0, 100, Packed(3, 3)>>
RowB == <<10, 20, 5, 1, 2, 0, 200, Packed(3, 3)>>
RowC == <<11, 21, 6, 3, 4, 1, 50, Packed(12, 2)>>
RowD == <<12, 22, 7, 5, 6, 2, 60, Packed(2, 7)>>
RowE == <<13, 23, 8, 7, 8, 0, 70, Packed(10, 0)>>
RowF == <<14, 24, 9, 2, 3, 1, 7, Packed(4, 4)>>
\* packed values whose sign bit is set: -65533 and -1 as signed 32-bit
RowN == <<15, 25, 9, 9, 9, 0, 80, Packed(-1, 3)>>
RowM == <<16, 26, 9, 9, 9, 0, 90, -1>>
RowZ == <<17, 27, 1, 0, 0, 0, 0, 0>>
\* rows of nine columns, the packed column already split
Row9A == <<10, 20, 5, 1, 2, 0, 100, 3, 3>>
Row9B == <<10, 20, 5, 1, 2, 0, 200, 3, 3>>

AllPayloads ==
    { <<RowA, RowB>>, <<RowB, RowA>>, <<RowC>>, <<RowC, RowA>>, <<RowA, RowD>>,
      <<RowC, RowD>>, <<RowD>>, <<RowE>>, <<RowF, RowF>>, <<RowN>>, <<RowA, RowN>>, <<RowM>>,
      <<RowZ>>, <<RowN, RowC, RowA>>, <<RowA, RowB, RowD>>,
      <<Row9A, Row9B>>, <<Row9A>> }

Payloads == {m \in AllPayloads : Len(m) <= MaxRows}

Ones(n) == [j \in 1..n |-> 1]
Halves == <<2, 2, 1, 1, 1, 1, 2, 2, 2>>

Scals == {Ones(9), Halves, Ones(10), Ones(8), Ones(1)}
Stmps == {0, 250, 1500000}

Item(k, v) == [key |-> k, value |-> v]

Block(m, scal, stmp) ==
    << Item("STMP", stmp), Item("STNM", "GPS (Lat., Long., Alt., 2D, 3D, days, secs, DOP, fix)"),
       Item("UNIT", "degdegmm/sm/s"), Item("SCAL", scal), Item("GPS9", m) >>

\* the block without its items of key k
Without(block, k) == SelectSeq(block, LAMBDA it : it.key # k)

RequiredTags == {"GPS9", "SCAL", "STNM", "STMP", "UNIT"}

FullBlocks == {Block(m, scal, stmp) : m \in Payloads, scal \in Scals, stmp \in Stmps}

\* every block parse_gps_block is called on: whole, with one or two of the
\* tags missing, with an item of another stream after GPS9, with STMP twice
DecodeBlocks ==
    FullBlocks
    \cup {Without(b, k) : b \in FullBlocks, k \in RequiredTags}
    \cup {Without(Without(b, k), "UNIT") : b \in FullBlocks, k \in RequiredTags}
    \cup {Append(b, Item("STMP", 7)) : b \in FullBlocks}
    \cup {Append(b, Item("TSMP", 1)) : b \in FullBlocks}

----------------------------------------------------------------------------
(* parse_gps_block called on its own, MaxCalls times on the same block. *)

InitDecode ==
    /\ gps_block \in DecodeBlocks
    /\ results = <<>>
    /\ stream = <<>> /\ pos = 0 /\ yielded = <<>> /\ xpc = "idle"
    /\ blocks = <<>> /\ tables = <<>> /\ first_only = FALSE
    /\ speeds_as_extensions = FALSE /\ pc = "idle" /\ gi = 0 /\ si = 0
    /\ points = <<>> /\ starttime = <<>> /\ err = Raised("", "", 0)

CallParseGpsBlock ==
    /\ Len(results) < MaxCalls
    /\ results' = Append(results, ParseGpsBlock(gps_block))
    /\ gps_block' = BlockAfterCall(gps_block)
    /\ UNCHANGED <<xvars, pvars>>

NextDecode == CallParseGpsBlock

SpecDecode == InitDecode /\ [][NextDecode]_vars

----------------------------------------------------------------------------
(* datetime and timedelta.  The SCAL entries drawn divide a day and a      *)
(* second into whole microseconds, so no float is rounded.                 *)

\* a timedelta of whole days, seconds and microseconds, normalised as
\* Python normalises it: 0 <= seconds < 86400, 0 <= microseconds < 1000000
Normalised(d, s, us) ==
    LET s2 == s + (us \div MicrosPerSecond)
    IN  [days         |-> d + (s2 \div SecondsPerDay),
         seconds      |-> s2 % SecondsPerDay,
         microseconds |-> us % MicrosPerSecond]

\* timedelta(days = d, seconds = s, microseconds = us), d and s floats
TimeDelta(d, s, us) ==
    LET dayRest == (d.num % d.den) * SecondsPerDay
        secRest == (s.num % s.den) * MicrosPerSecond
    IN  Normalised(d.num \div d.den,
                   (dayRest \div d.den) + (s.num \div s.den),
                   (((dayRest % d.den) * MicrosPerSecond) \div d.den)
                       + (secRest \div s.den) + us)

Whole(n) == [num |-> n, den |-> 1]

\* datetime(2000, 1, 1, 0, 0, 0, 0), as the time since itself
Epoch == [days |-> 0, seconds |-> 0, microseconds |-> 0]

\* datetime + timedelta
Plus(t, delta) ==
    Normalised(t.days + delta.days, t.seconds + delta.seconds,
               t.microseconds + delta.microseconds)

----------------------------------------------------------------------------
(* make_pgx_segment *)

\* a float equal to the integer k
Equals(x, k) == x.num = k * x.den

\* x < k for a float x over a positive SCAL entry
Below(x, k) == x.num < k * x.den

FixKeys == {0, 2, 3}

\* the lookup as FIX_TYPE.get(fix): no key is refused
HasFixType_lenient(x) == TRUE

\* fix in FIX_TYPE
HasFixType(x) == \E k \in FixKeys : Equals(x, k)

\* FIX_TYPE[fix]
FixType(x) ==
    IF Equals(x, 0) THEN "none" ELSE IF Equals(x, 2) THEN "2d"
    ELSE IF Equals(x, 3) THEN "3d" ELSE "KeyError"

\* stop as `npoints if first_only else 1`
Stop_swapped(gps_data, first) == IF first THEN gps_data.npoints ELSE 1

\* line 146: stop = 1 if first_only else gps_data.npoints
Stop(gps_data, first) == IF first THEN 1 ELSE gps_data.npoints

\* line 147: gps_data.precision[0] < 10
Qualifies(gps_data) == Below(gps_data.precision[1], PrecisionGate)

\* line 148: the start time of one table
StartTimeOf(gps_data) ==
    Plus(Plus(Epoch, TimeDelta(gps_data.timestamp[1][1],
                               gps_data.timestamp[2][1], 0)),
         TimeDelta(Whole(0), Whole(0), (gps_data.micros_after_start.value) * (-1)))

\* the accumulator kept from the first table that passes the gate
StartTimeAfter_first_wins(start, gps_data) ==
    IF Qualifies(gps_data) /\ start = <<>> THEN <<StartTimeOf(gps_data)>> ELSE start

\* the accumulator given the epoch when the first table fails the gate
StartTimeAfter_defaulting(start, gps_data) ==
    IF Qualifies(gps_data) THEN <<StartTimeOf(gps_data)>>
    ELSE IF start = <<>> THEN <<Epoch>> ELSE start

\* lines 147-148: starttime after the gate of one table
StartTimeAfter(start, gps_data) ==
    IF Qualifies(gps_data) THEN <<StartTimeOf(gps_data)>> ELSE start

\* _make_speed_extensions(gps_data, 0): the two elements, value and unit;
\* the value is kept as the float, not as its "%g" text
MakeSpeedExtensions(gps_data, i) ==
    << [tag |-> "speed_2d", value |-> gps_data.speed_2d[i + 1], unit |-> "m/s"],
       [tag |-> "speed_3d", value |-> gps_data.speed_3d[i + 1], unit |-> "m/s"] >>

\* the track point with its time taken from sample 0, as the extensions are
TrackPoint_time_of_sample_0(gps_data, i, extensions) ==
    [latitude          |-> gps_data.latitude[i + 1],
     longitude         |-> gps_data.longitude[i + 1],
     elevation         |-> gps_data.altitude[i + 1],
     speed             |-> gps_data.speed_3d[i + 1],
     position_dilution |-> gps_data.precision[i + 1],
     time              |-> Plus(Epoch, TimeDelta(gps_data.timestamp[1][1],
                                                 gps_data.timestamp[2][1], 0)),
     symbol            |-> "Square",
     type_of_gpx_fix   |-> FixType(gps_data.fix[i + 1]),
     extensions        |-> IF extensions THEN MakeSpeedExtensions(gps_data, 0)
                           ELSE <<>>]

\* lines 153-170: the track point of sample i (0-based)
TrackPoint(gps_data, i, extensions) ==
    [latitude          |-> gps_data.latitude[i + 1],
     longitude         |-> gps_data.longitude[i + 1],
     elevation         |-> gps_data.altitude[i + 1],
     speed             |-> gps_data.speed_3d[i + 1],
     position_dilution |-> gps_data.precision[i + 1],
     time              |-> Plus(Epoch, TimeDelta(gps_data.timestamp[1][i + 1],
                                                 gps_data.timestamp[2][i + 1], 0)),
     symbol            |-> "Square",
     type_of_gpx_fix   |-> FixType(gps_data.fix[i + 1]),
     extensions        |-> IF extensions THEN MakeSpeedExtensions(gps_data, 0)
                           ELSE <<>>]

----------------------------------------------------------------------------
(* The pipeline: parse_gps_block on every block in order, an exception     *)
(* ending the run, then make_pgx_segment on the list of tables.            *)

PipeBlocks ==
    {Block(m, Ones(9), 0) : m \in Payloads \ {<<RowM>>, <<RowZ>>, <<Row9A>>}}
    \cup { Block(<<RowC>>, Halves, 250), Block(<<RowB, RowA>>, Ones(9), 1500000),
           Block(<<RowF, RowF>>, Halves, 1500000),
           Without(Block(<<RowA>>, Ones(9), 0), "STMP") }

\* the sequences over S of length at most n
SeqsUpTo(S, n) == UNION {[1..k -> S] : k \in 0..n}

Init ==
    /\ blocks \in SeqsUpTo(PipeBlocks, MaxBlocks)
    /\ first_only \in BOOLEAN
    /\ speeds_as_extensions \in BOOLEAN
    /\ tables = <<>> /\ pc = "decode" /\ gi = 0 /\ si = 0
    /\ points = <<>> /\ starttime = <<>> /\ err = Raised("", "", 0)
    /\ stream = <<>> /\ pos = 0 /\ yielded = <<>> /\ xpc = "idle"
    /\ gps_block = <<>> /\ results = <<>>

\* parse_gps_block on the next block
DecodeNext ==
    /\ pc = "decode"
    /\ Len(tables) < Len(blocks)
    /\ LET k == Len(tables) + 1
           res == ParseGpsBlock(blocks[k])
       IN  /\ blocks' = [blocks EXCEPT ![k] = BlockAfterCall(@)]
           /\ IF res.status = "ok"
              THEN /\ tables' = Append(tables, res.table[1])
                   /\ UNCHANGED <<pc, err>>
              ELSE /\ pc' = "error"
                   /\ err' = res
                   /\ UNCHANGED tables
    /\ UNCHANGED <<first_only, speeds_as_extensions, gi, si, points, starttime>>
    /\ UNCHANGED <<xvars, dvars>>

\* line 142: the call of make_pgx_segment, the segment empty
CallMakePgxSegment ==
    /\ pc = "decode"
    /\ Len(tables) = Len(blocks)
    /\ pc' = "for"
    /\ gi' = 0 /\ si' = 0 /\ points' = <<>> /\ starttime' = <<>>
    /\ UNCHANGED <<blocks, tables, first_only, speeds_as_extensions, err>>
    /\ UNCHANGED <<xvars, dvars>>

\* lines 144-148: the next table, its stop and the gate on its start time
ForTable ==
    /\ pc = "for"
    /\ gi < Len(tables)
    /\ starttime' = StartTimeAfter(starttime, tables[gi + 1])
    /\ si' = 0
    /\ pc' = "point"
    /\ UNCHANGED <<blocks, tables, first_only, speeds_as_extensions, gi, points, err>>
    /\ UNCHANGED <<xvars, dvars>>

\* lines 150-172: one pass of the inner loop; FIX_TYPE[...] raises KeyError
\* before the point is appended
ForSample ==
    /\ pc = "point"
    /\ si < Stop(tables[gi + 1], first_only)
    /\ IF HasFixType(tables[gi + 1].fix[si + 1])
       THEN /\ points' = Append(points, TrackPoint(tables[gi + 1], si,
                                                   speeds_as_extensions))
            /\ si' = si + 1
            /\ UNCHANGED <<pc, err>>
       ELSE /\ pc' = "error"
            /\ err' = Raised("KeyError", "FIX_TYPE", 165)
            /\ UNCHANGED <<points, si>>
    /\ UNCHANGED <<blocks, tables, first_only, speeds_as_extensions, gi, starttime>>
    /\ UNCHANGED <<xvars, dvars>>

\* line 150: range(stop) is exhausted, back to line 144
EndTable ==
    /\ pc = "point"
    /\ si = Stop(tables[gi + 1], first_only)
    /\ gi' = gi + 1
    /\ pc' = "for"
    /\ UNCHANGED <<blocks, tables, first_only, speeds_as_extensions, si, points,
                   starttime, err>>
    /\ UNCHANGED <<xvars, dvars>>

\* line 174: return track_segment, starttime; an unbound starttime raises
Return ==
    /\ pc = "for"
    /\ gi = Len(tables)
    /\ IF starttime = <<>>
       THEN /\ pc' = "error"
            /\ err' = Raised("UnboundLocalError", "starttime", 174)
       ELSE /\ pc' = "done"
            /\ UNCHANGED err
    /\ UNCHANGED <<blocks, tables, first_only, speeds_as_extensions, gi, si,
                   points, starttime>>
    /\ UNCHANGED <<xvars, dvars>>

Next ==
    \/ DecodeNext
    \/ CallMakePgxSegment
    \/ ForTable
    \/ ForSample
    \/ EndTable
    \/ Return

Spec == Init /\ [][Next]_vars

----------------------------------------------------------------------------
(* extract_gps_blocks: a generator; one action is one pass of its outer    *)
(* loop over the STRM containers that parse.filter_klv hands it.           *)

\* parse.filter_klv(stream, "STRM"): the top-level items of that key, in
\* the order of the stream
FilterKlv(items, key) == SelectSeq(items, LAMBDA it : it.key = key)

\* the inner loop leaving at the GPS9 child
RECURSIVE ScanChildren_until_gps(_, _, _, _)
ScanChildren_until_gps(value, i, content, is_gps) ==
    IF i > Len(value) \/ is_gps THEN <<content, is_gps>>
    ELSE ScanChildren_until_gps(value, i + 1, Append(content, value[i]),
                                is_gps \/ value[i].key = "GPS9")

\* lines 46-51: the inner loop from child i on; <<content, is_gps>> at its end
RECURSIVE ScanChildren(_, _, _, _)
ScanChildren(value, i, content, is_gps) ==
    IF i > Len(value) THEN <<content, is_gps>>
    ELSE ScanChildren(value, i + 1, Append(content, value[i]),
                      is_gps \/ value[i].key = "GPS9")

Children == {Item("GPS9", <<RowA>>), Item("SCAL", Ones(9)), Item("ACCL", <<<<1, 2, 3>>>>)}

TopLevelItems ==
    {Item("STRM", v) : v \in SeqsUpTo(Children, MaxChildren)}
    \cup {Item("DEVC", <<>>), Item("DEVC", <<Item("GPS9", <<RowA>>)>>)}

InitExtract ==
    /\ stream \in SeqsUpTo(TopLevelItems, MaxStream)
    /\ pos = 0 /\ yielded = <<>> /\ xpc = "running"
    /\ gps_block = <<>> /\ results = <<>>
    /\ blocks = <<>> /\ tables = <<>> /\ first_only = FALSE
    /\ speeds_as_extensions = FALSE /\ pc = "idle" /\ gi = 0 /\ si = 0
    /\ points = <<>> /\ starttime = <<>> /\ err = Raised("", "", 0)

\* lines 43-53: one STRM container; its group is yielded when is_gps
NextContainer ==
    /\ xpc = "running"
    /\ pos < Len(FilterKlv(stream, "STRM"))
    /\ LET s == FilterKlv(stream, "STRM")[pos + 1]
           scan == ScanChildren(s.value, 1, <<>>, FALSE)
       IN  yielded' = IF scan[2] THEN Append(yielded, scan[1]) ELSE yielded
    /\ pos' = pos + 1
    /\ UNCHANGED <<stream, xpc, dvars, pvars>>

\* line 43: the filter is exhausted and the generator ends
Exhausted ==
    /\ xpc = "running"
    /\ pos = Len(FilterKlv(stream, "STRM"))
    /\ xpc' = "exhausted"
    /\ UNCHANGED <<stream, pos, yielded, dvars, pvars>>

NextExtract == NextContainer \/ Exhausted

SpecExtract == InitExtract /\ [][NextExtract]_vars

----------------------------------------------------------------------------
(* Properties of extract_gps_blocks, under SpecExtract. *)

HasGps9Child(s) == \E i \in 1..Len(s.value) : s.value[i].key = "GPS9"

\* the children lists of those of the first n STRM containers of the stream
\* that have a GPS9 child, in stream order
GroupsOfFirst(n) ==
    LET strm == SelectSeq(stream, LAMBDA it : it.key = "STRM")
        gps  == SelectSeq(SubSeq(strm, 1, n), HasGps9Child)
    IN  [k \in 1..Len(gps) |-> gps[k].value]

\* C1: the groups yielded so far are exactly the complete children lists, in
\* their original order, of the STRM containers consumed so far that have a
\* direct GPS9 child, in stream order; a container without one adds nothing,
\* and the generator ends only when every STRM container has been consumed.
C1_GroupsYielded ==
    /\ yielded = GroupsOfFirst(pos)
    /\ xpc \in {"running", "exhausted"}
    /\ xpc = "exhausted" =>
           pos = Cardinality({i \in 1..Len(stream) : stream[i].key = "STRM"})

\* a stream of a STRM container without GPS9 and one whose GPS9 child is
\* followed by another child, consumed to its end
C1_Witness ==
    /\ xpc = "exhausted"
    /\ Len(stream) = 2
    /\ stream[1].key = "STRM" /\ stream[1].value # <<>> /\ ~HasGps9Child(stream[1])
    /\ stream[2].key = "STRM" /\ Len(stream[2].value) = 2
    /\ stream[2].value[1].key = "GPS9" /\ stream[2].value[2].key # "GPS9"
    /\ yielded = <<stream[2].value>>

----------------------------------------------------------------------------
(* Properties of parse_gps_block, under SpecDecode. *)

MissingTags(block) == RequiredTags \ Keys(block)

\* the payload has the eight columns and SCAL the length that lines 81-82 need
ShapesFit(block) ==
    /\ {"GPS9", "SCAL"} \subseteq Keys(block)
    /\ \A i \in 1..Len(Lookup(block, "GPS9").value) :
           Len(Lookup(block, "GPS9").value[i]) + 1 = 9
    /\ Len(Lookup(block, "SCAL").value) \in {9, 1}

PackedOf(block, i) ==
    LET row == Lookup(block, "GPS9").value[i] IN row[Len(row)]

\* C7: in every table returned, for every row whose packed value v is not
\* negative, the whole part q (read back unscaled from 0-based column 7, the
\* place of the packed column) and the remainder r (read back from the appended
\* last column) satisfy q * 65536 + r = v and 0 <= r < 65536.
C7_WholePartAndRemainder ==
    \A c \in 1..Len(results) :
        results[c].status = "ok" =>
            LET t == results[c].table[1]
                value == Lookup(gps_block, "GPS9").value
            IN  \A i \in 1..Len(value) :
                    PackedOf(gps_block, i) >= 0 =>
                        LET q == t.precision[i].num
                            r == t.fix[i].num
                        IN  /\ Len(value[i]) - 1 = 7
                            /\ q * 65536 + r = PackedOf(gps_block, i)
                            /\ 0 <= r /\ r < 65536

\* a table returned for a row whose packed value has both parts non-zero
C7_Witness ==
    /\ results # <<>> /\ results[1].status = "ok"
    /\ PackedOf(gps_block, 1) = 12 * 65536 + 2
    /\ results[1].table[1].precision[1].num = 12
    /\ results[1].table[1].fix[1].num = 2

\* C8: in every table returned, a row whose packed value v is negative has
\* had 2^32 added before the split: its whole part is (v + 2^32) div 65536, a
\* value in 32768..65535, and its remainder (v + 2^32) mod 65536.  Since
\* 2^32 = 65536 * 65536, (v + 2^32) div 65536 = (v div 65536) + 65536 and
\* (v + 2^32) mod 65536 = v mod 65536.
C8_NegativeRowsGetTwoPow32 ==
    \A c \in 1..Len(results) :
        results[c].status = "ok" =>
            LET t == results[c].table[1]
            IN  \A i \in 1..t.npoints :
                    PackedOf(gps_block, i) < 0 =>
                        /\ t.precision[i].num = (PackedOf(gps_block, i) \div 65536) + 65536
                        /\ t.precision[i].num \in 32768..65535
                        /\ t.fix[i].num = PackedOf(gps_block, i) % 65536

\* C9: a call of parse_gps_block leaves its argument as it was, GPS9 matrix
\* and SCAL vector included, whether it returns or raises, and a second call
\* on the same block gives the result of the first.
C9_ArgumentUnmodified ==
    [][ /\ gps_block' = gps_block
        /\ results # <<>> => results'[Len(results')] = results[1] ]_vars

\* a block with a negative packed value decoded twice into a table
C9_Witness ==
    /\ Len(results) = 2
    /\ results[2].status = "ok"
    /\ \E i \in 1..results[2].table[1].npoints : PackedOf(gps_block, i) < 0

----------------------------------------------------------------------------
(* Properties of make_pgx_segment and of the pipeline, under Spec. *)

\* make_pgx_segment has been called: every block has been decoded
Assembling == pc \in {"for", "point", "done"} \/ (pc = "error" /\ err.line > 96)

\* the samples of table g that the inner loop visits: <<g, i>>, i 0-based
SamplesOf(g) ==
    [k \in 1..(IF first_only THEN 1 ELSE tables[g].npoints) |-> <<g, k - 1>>]

\* the samples of the first n tables, table after table
RECURSIVE SamplesOfFirst(_)
SamplesOfFirst(n) == IF n = 0 THEN <<>> ELSE SamplesOfFirst(n - 1) \o SamplesOf(n)

\* the samples behind the loops' position: the tables already left, and the
\* samples of the current table below i
SamplesPassed ==
    IF pc = "point" \/ (pc = "error" /\ err.line = 165)
    THEN SamplesOfFirst(gi) \o SubSeq(SamplesOf(gi + 1), 1, si)
    ELSE SamplesOfFirst(gi)

\* C2: the points of the segment returned are, table after table in input
\* order, the samples 0 .. stop-1 of each table in ascending order, stop being
\* 1 under first_only and npoints otherwise: one point per table, of sample 0,
\* under first_only, and the sum of npoints many without it.
C2_PointsInOrder ==
    pc = "done" =>
        /\ Len(points) = Len(SamplesOfFirst(Len(tables)))
        /\ \A k \in 1..Len(points) :
               LET g == SamplesOfFirst(Len(tables))[k][1]
                   i == SamplesOfFirst(Len(tables))[k][2]
               IN  points[k] = TrackPoint(tables[g], i, speeds_as_extensions)
        /\ first_only =>
               /\ Len(points) = Len(tables)
               /\ \A g \in 1..Len(tables) :
                      points[g] = TrackPoint(tables[g], 0, speeds_as_extensions)

\* a segment returned without first_only for two tables of two samples each
C2_Witness ==
    /\ pc = "done" /\ ~first_only
    /\ Len(tables) = 2 /\ tables[1].npoints = 2 /\ tables[2].npoints = 2
    /\ tables[1] # tables[2]
    /\ Len(points) = 4

\* the tables among the first n whose precision[0] is below 10
QualifyingAmong(n) ==
    {g \in 1..n : tables[g].precision[1].num < 10 * tables[g].precision[1].den}

\* epoch + days[0] + seconds[0] - STMP microseconds of the last qualifying
\* table among the first n; <<>> (unbound) when there is none
LastQualifyingStart(n) ==
    IF QualifyingAmong(n) = {} THEN <<>>
    ELSE LET g == CHOOSE q \in QualifyingAmong(n) : \A o \in QualifyingAmong(n) : o <= q
         IN  <<Plus(Plus(Epoch, TimeDelta(tables[g].timestamp[1][1],
                                          tables[g].timestamp[2][1], 0)),
                    TimeDelta(Whole(0), Whole(0),
                              -(tables[g].micros_after_start.value)))>>

\* C3: once the gate of a prefix of the tables has run, starttime is epoch +
\* days[0] + seconds[0] - STMP microseconds of the last table of that prefix
\* whose precision[0] is below 10, a table at 10 or more leaving it as it was;
\* the start time returned is that of the last qualifying table of the input.
C3_LastQualifyingWins ==
    /\ pc = "for" => starttime = LastQualifyingStart(gi)
    /\ pc = "point" => starttime = LastQualifyingStart(gi + 1)
    /\ pc = "done" => /\ starttime = LastQualifyingStart(Len(tables))
                      /\ starttime # <<>>

\* a segment returned for two qualifying tables of different start times
\* followed in the input by nothing: the second one's time, 198.5 s, is kept
C3_Witness ==
    /\ pc = "done"
    /\ Len(tables) = 2
    /\ QualifyingAmong(2) = {1, 2}
    /\ LastQualifyingStart(1) # LastQualifyingStart(2)
    /\ tables[2].micros_after_start.value = 1500000
    /\ starttime = <<[days |-> 0, seconds |-> 198, microseconds |-> 500000]>>

\* the fix value of a sample is the integer k
FixIs(sample, k) ==
    tables[sample[1]].fix[sample[2] + 1].num = k * tables[sample[1]].fix[sample[2] + 1].den

KnownFix(sample) == FixIs(sample, 0) \/ FixIs(sample, 2) \/ FixIs(sample, 3)

\* C5: parse_gps_block returns a table for every block that has its tags and
\* shapes, whatever its fix column holds; make_pgx_segment labels the points
\* "none", "2d", "3d" for fix 0, 2, 3, and raises the one unknown-fix error
\* (KeyError at line 165) exactly at the first visited sample i < stop whose
\* fix is another value, the samples before it built and no sample passed.
C5_UnknownFixAtTheSample ==
    /\ (pc = "error" /\ err.line <= 96) =>
           \/ MissingTags(blocks[Len(tables) + 1]) # {}
           \/ ~ShapesFit(blocks[Len(tables) + 1])
    /\ Assembling =>
           /\ Len(points) = Len(SamplesPassed)
           /\ \A k \in 1..Len(points) :
                  /\ KnownFix(SamplesPassed[k])
                  /\ FixIs(SamplesPassed[k], 0) => points[k].type_of_gpx_fix = "none"
                  /\ FixIs(SamplesPassed[k], 2) => points[k].type_of_gpx_fix = "2d"
                  /\ FixIs(SamplesPassed[k], 3) => points[k].type_of_gpx_fix = "3d"
    /\ (pc = "error" /\ err.line = 165) =>
           /\ err.status = "KeyError"
           /\ si < Len(SamplesOf(gi + 1))
           /\ ~KnownFix(<<gi + 1, si>>)
    /\ (pc = "error" /\ err.line > 96 /\ err.line # 165) =>
           /\ err.status # "KeyError"
           /\ \A k \in 1..Len(SamplesOfFirst(Len(tables))) :
                  KnownFix(SamplesOfFirst(Len(tables))[k])

\* a segment returned under first_only for a table whose fix is 7 at index 1
C5_Witness ==
    /\ pc = "done" /\ first_only
    /\ \E g \in 1..Len(tables) :
           /\ tables[g].npoints = 2
           /\ tables[g].fix[2] = [num |-> 7, den |-> 1]
           /\ points[g].type_of_gpx_fix = "3d"

\* the block of the end-to-end example, its payload of nine columns per row
NineColumnBlock == Block(<<Row9A, Row9B>>, Ones(9), 0)

\* the same two samples as the tokenizer packs them: eight columns per row,
\* the last one DOP * 65536 + fix = 3 * 65536 + 3
EightColumnBlock == Block(<<RowA, RowB>>, Ones(9), 0)

SecondsAfterEpoch(n) == [days |-> 0, seconds |-> n, microseconds |-> 0]

\* the two points of the example: latitude 10, longitude 20, fix "3d", at
\* 100 s and 200 s after the epoch
ExamplePoints ==
    /\ Len(points) = 2
    /\ \A k \in {1, 2} :
           /\ points[k].latitude = Whole(10)
           /\ points[k].longitude = Whole(20)
           /\ points[k].type_of_gpx_fix = "3d"
    /\ points[1].time = SecondsAfterEpoch(100)
    /\ points[2].time = SecondsAfterEpoch(200)

C10_FailsAtReturn ==
    (Assembling /\ pc \in {"done", "error"} /\ QualifyingAmong(Len(tables)) = {}) =>
        /\ pc = "error"
        /\ err.line = 174
        /\ Len(points) = Len(SamplesOfFirst(Len(tables)))

\* C10 amended: when no table has precision[0] below 10 (an empty input
\* included), make_pgx_segment never returns a segment or a start time, and
\* starttime stays unbound; it raises at the return statement (line 174) after
\* every point has been built, unless a visited sample has an unknown fix
\* code, in which case it raises the KeyError of line 165 at that sample.
C10_NeverReturnsUnqualified ==
    (Assembling /\ QualifyingAmong(Len(tables)) = {}) =>
        /\ pc # "done"
        /\ starttime = <<>>
        /\ pc = "error" =>
               \/ /\ err.line = 174 /\ err.status = "UnboundLocalError"
                  /\ Len(points) = Len(SamplesOfFirst(Len(tables)))
               \/ /\ err.line = 165 /\ err.status = "KeyError"
                  /\ ~KnownFix(<<gi + 1, si>>)
        /\ (pc = "error" /\ err.line = 174) =>
               \A k \in 1..Len(SamplesOfFirst(Len(tables))) :
                   KnownFix(SamplesOfFirst(Len(tables))[k])

\* the error at the return statement for two tables that fail the gate,
\* their points built
C10_Witness ==
    /\ pc = "error" /\ err.line = 174
    /\ Len(tables) = 2
    /\ QualifyingAmong(2) = {}
    /\ Len(points) >= 2

====
